---- MODULE Spec2Model ----
(***************************************************************************)
(* Model of trieve_py_client.models.click.Click: a pydantic record with    *)
(* three required fields, three nullable optional fields, an enum          *)
(* validator on event_type, validate_assignment, and the generated         *)
(* to_dict / to_json / to_str / from_dict / from_json methods.             *)
(*                                                                         *)
(* Python values are tagged tuples of strings, so that any two values can  *)
(* be compared: <<"None">>, <<"str", s>>, <<"bool", b>>, <<"int", n>>, a   *)
(* nested model instance <<cls, id>>, the mapping a nested to_dict()       *)
(* returns <<"dict", cls, id>>, and the mapping pydantic's own model_dump  *)
(* produces for a nested model <<"dump", cls, id>>.  A Python dict is a    *)
(* function from key strings to values.                                    *)
(***************************************************************************)
EXTENDS Integers, Sequences, FiniteSets, TLC

VARIABLES rec, origin, op, arg, ret, seen, supplied, validated

vars == <<rec, origin, op, arg, ret, seen, supplied, validated>>

----------------------------------------------------------------------------
(* Values *)

None == <<"None">>
Absent == <<"absent">>
Str(s) == <<"str", s>>
Bool(b) == <<"bool", b>>
IntVal(n) == <<"int", n>>
Model(cls, id) == <<cls, id>>

CLICK == Str("click")
VIEW == Str("view")
NAME == Str("search_click")
USER == Str("u1")
FALSE_ == Bool("False")
FIVE == IntVal("5")
CHUNK == Model("ChunkWithPosition", "a")
REQ == Model("RequestInfo", "r")

IsStr(v) == Len(v) = 2 /\ v[1] = "str"
IsBool(v) == Len(v) = 2 /\ v[1] = "bool"
IsModel(cls, v) == Len(v) = 2 /\ v[1] = cls
IsDictOf(cls, v) == Len(v) = 3 /\ v[1] = "dict" /\ v[2] = cls

(* Python dicts *)
EmptyMap == [k \in {} |-> None]
Get(m, k) == IF k \in DOMAIN m THEN m[k] ELSE None
Put(m, k, v) == [x \in DOMAIN m \cup {k} |-> IF x = k THEN v ELSE m[x]]
Strip(c) == [k \in {x \in DOMAIN c : c[x] # Absent} |-> c[k]]

----------------------------------------------------------------------------
(* The class: fields and their declared types *)

properties ==
    {"clicked_items", "event_name", "event_type", "is_conversion", "request", "user_id"}
Required == {"clicked_items", "event_name", "event_type"}
Nullable == {"is_conversion", "request", "user_id"}

NoRecord == [vals |-> EmptyMap, fields_set |-> {}]

Ok(v) == [ok |-> TRUE, val |-> v, err |-> "none"]
Err(e) == [ok |-> FALSE, val |-> None, err |-> e]

(* pydantic validation of a field whose type is a nested model class *)
validate_model(cls, v) ==
    IF IsModel(cls, v) THEN Ok(v)
    ELSE IF IsDictOf(cls, v) THEN Ok(Model(cls, v[3]))
    ELSE Err("model_type")

StrictStr(v) == IF IsStr(v) THEN Ok(v) ELSE Err("string_type")
StrictBool(v) == IF IsBool(v) THEN Ok(v) ELSE Err("bool_type")

event_type_accept_any(value) == Ok(value)

event_type_validate_enum(value) ==
    IF value \notin {CLICK} THEN Err("value_error") ELSE Ok(value)

validate_event_name_nullable(v) == IF v = None THEN Ok(None) ELSE StrictStr(v)

validate_clicked_items(v) == validate_model("ChunkWithPosition", v)
validate_event_name(v) == StrictStr(v)
validate_event_type(v) ==
    IF StrictStr(v).ok THEN event_type_validate_enum(v) ELSE StrictStr(v)
validate_is_conversion(v) == IF v = None THEN Ok(None) ELSE StrictBool(v)
validate_request(v) == IF v = None THEN Ok(None) ELSE validate_model("RequestInfo", v)
validate_user_id(v) == IF v = None THEN Ok(None) ELSE StrictStr(v)

validate_field(f, v) ==
    CASE f = "clicked_items" -> validate_clicked_items(v)
      [] f = "event_name" -> validate_event_name(v)
      [] f = "event_type" -> validate_event_type(v)
      [] f = "is_conversion" -> validate_is_conversion(v)
      [] f = "request" -> validate_request(v)
      [] f = "user_id" -> validate_user_id(v)

(* Result of a constructing call *)
Raise(errs, ran) == [rec |-> NoRecord, validated |-> ran, kind |-> "raise", errors |-> errs]
Return(r, ran) == [rec |-> r, validated |-> ran, kind |-> "record", errors |-> {}]
ReturnNone == [rec |-> NoRecord, validated |-> FALSE, kind |-> "None", errors |-> {}]

\* Click(data as keyword arguments) / Click.model_validate(data) for a dict data
model_validate(data) ==
    LET given == DOMAIN data \cap properties
        errs == {<<f, "missing">> : f \in Required \ given}
                \cup {<<f, validate_field(f, data[f]).err>> :
                        f \in {g \in given : ~validate_field(g, data[g]).ok}}
        vals == [f \in properties |->
                    IF f \in given THEN validate_field(f, data[f]).val ELSE None]
    IN IF errs # {} THEN Raise(errs, TRUE)
       ELSE Return([vals |-> vals, fields_set |-> given], TRUE)


----------------------------------------------------------------------------
(* Serialization *)

\* to_dict() of the nested classes ChunkWithPosition and RequestInfo
NestedToDict(v) == <<"dict", v[1], v[2]>>

\* from_dict() of the nested classes (None -> None, mapping -> instance)
NestedFromDict(cls, v) ==
    IF v = None THEN Ok(None)
    ELSE IF IsDictOf(cls, v) THEN Ok(Model(cls, v[3]))
    ELSE IF IsModel(cls, v) THEN Ok(v)
    ELSE Err("model_type")

\* pydantic's own dump of one field value
DumpValue(v) ==
    IF Len(v) = 2 /\ v[1] \in {"ChunkWithPosition", "RequestInfo"}
    THEN <<"dump", v[1], v[2]>> ELSE v

\* bool(x) of a field value: None is falsy, a model instance is truthy
Truthy(v) ==
    /\ v # None
    /\ v # Bool("False")
    /\ v # Str("")

\* self.model_dump(by_alias=True, exclude=excluded_fields, exclude_none=...)
model_dump(self, exclude_none) ==
    [f \in {g \in properties : ~exclude_none \/ self.vals[g] # None} |->
        DumpValue(self.vals[f])]

to_dict_without_nulls(self) ==
    LET d0 == model_dump(self, TRUE)
        d1 == IF Truthy(self.vals["clicked_items"])
              THEN Put(d0, "clicked_items", NestedToDict(self.vals["clicked_items"]))
              ELSE d0
    IN IF Truthy(self.vals["request"])
       THEN Put(d1, "request", NestedToDict(self.vals["request"]))
       ELSE d1

to_dict(self) ==
    LET d0 == model_dump(self, TRUE)
        d1 == IF Truthy(self.vals["clicked_items"])
              THEN Put(d0, "clicked_items", NestedToDict(self.vals["clicked_items"]))
              ELSE d0
        d2 == IF Truthy(self.vals["request"])
              THEN Put(d1, "request", NestedToDict(self.vals["request"]))
              ELSE d1
        d3 == IF self.vals["is_conversion"] = None /\ "is_conversion" \in self.fields_set
              THEN Put(d2, "is_conversion", None) ELSE d2
        d4 == IF self.vals["request"] = None /\ "request" \in self.fields_set
              THEN Put(d3, "request", None) ELSE d3
        d5 == IF self.vals["user_id"] = None /\ "user_id" \in self.fields_set
              THEN Put(d4, "user_id", None) ELSE d4
    IN d5

\* json.dumps / json.loads on one value
JsonEncode(v) ==
    IF v = None THEN <<"null">>
    ELSE IF Len(v) = 3 /\ v[1] = "dict" THEN <<"object", v[2], v[3]>>
    ELSE IF v[1] = "str" THEN <<"string", v[2]>>
    ELSE IF v[1] = "bool" THEN <<"literal", IF v[2] = "False" THEN "false" ELSE "true">>
    ELSE <<"number", v[2]>>

JsonDecode(j) ==
    IF j = <<"null">> THEN None
    ELSE IF j[1] = "object" THEN <<"dict", j[2], j[3]>>
    ELSE IF j[1] = "string" THEN Str(j[2])
    ELSE IF j[1] = "literal" THEN Bool(IF j[2] = "false" THEN "False" ELSE "True")
    ELSE IntVal(j[2])

json_dumps(d) == [k \in DOMAIN d |-> JsonEncode(d[k])]
json_loads(t) == [k \in DOMAIN t |-> JsonDecode(t[k])]

to_json(self) == json_dumps(to_dict(self))

pformat(d) == [k \in DOMAIN d |-> <<"repr">> \o d[k]]
to_str(self) == pformat(model_dump(self, FALSE))

----------------------------------------------------------------------------
(* Deserialization.  An argument is [top, m, inst]: top tells what kind of *)
(* Python object it is, m is its content when it is a dict, inst the       *)
(* record when it is a Click instance.                                     *)

ArgNone == [m |-> EmptyMap, top |-> "None", inst |-> NoRecord]
ArgDict(m) == [m |-> m, top |-> "dict", inst |-> NoRecord]
ArgInt == [m |-> EmptyMap, top |-> "int", inst |-> NoRecord]
ArgClick(r) == [m |-> EmptyMap, top |-> "Click", inst |-> r]
ArgKw(m) == [m |-> m, top |-> "kwargs", inst |-> NoRecord]
ArgSet(f, v) == [m |-> Put(EmptyMap, f, v), top |-> "setattr", inst |-> NoRecord]
ArgVoid == [m |-> EmptyMap, top |-> "void", inst |-> NoRecord]

\* cls.model_validate(obj) for an obj that is not a dict
model_validate_object(obj) ==
    IF obj.top = "Click" THEN Return(obj.inst, TRUE)
    ELSE Raise({<<"Click", "model_type">>}, TRUE)

from_dict_body(obj) ==
    IF obj.top # "dict" THEN model_validate_object(obj)
    ELSE
      LET m == obj.m
          ci == IF Get(m, "clicked_items") # None
                THEN NestedFromDict("ChunkWithPosition", m["clicked_items"])
                ELSE Ok(None)
          rq == IF Get(m, "request") # None
                THEN NestedFromDict("RequestInfo", m["request"])
                ELSE Ok(None)
      IN IF ~ci.ok THEN Raise({<<"ChunkWithPosition", ci.err>>}, FALSE)
         ELSE IF ~rq.ok THEN Raise({<<"RequestInfo", rq.err>>}, FALSE)
         ELSE model_validate(
                [f \in properties |->
                   CASE f = "clicked_items" -> ci.val
                     [] f = "request" -> rq.val
                     [] OTHER -> Get(m, f)])

from_dict_unguarded(obj) == from_dict_body(obj)

from_dict(obj) ==
    IF obj.top = "None" THEN ReturnNone ELSE from_dict_body(obj)

\* A JSON text is [top, m]: "null", "malformed", or an object with members m
from_json(text) ==
    IF text.top = "malformed"
    THEN [rec |-> NoRecord, validated |-> FALSE, kind |-> "raise",
          errors |-> {<<"json", "JSONDecodeError">>}]
    ELSE IF text.top = "null" THEN from_dict(ArgNone)
    ELSE from_dict(ArgDict(json_loads(text.m)))

\* self.<f> = v under validate_assignment=True
setattr_unvalidated(self, f, v) ==
    IF f \notin properties
    THEN [rec |-> self, ok |-> FALSE, errors |-> {<<f, "no_such_field">>}]
    ELSE [rec |-> [vals |-> [self.vals EXCEPT ![f] = v],
                   fields_set |-> self.fields_set \cup {f}],
          ok |-> TRUE,
          errors |-> {}]

setattr_marks_before_validating(self, f, v) ==
    IF f \notin properties
    THEN [rec |-> self, ok |-> FALSE, errors |-> {<<f, "no_such_field">>}]
    ELSE IF ~validate_field(f, v).ok
    THEN [rec |-> [self EXCEPT !.fields_set = @ \cup {f}],
          ok |-> FALSE,
          errors |-> {<<f, validate_field(f, v).err>>}]
    ELSE [rec |-> [vals |-> [self.vals EXCEPT ![f] = validate_field(f, v).val],
                   fields_set |-> self.fields_set \cup {f}],
          ok |-> TRUE,
          errors |-> {}]

validate_assignment(self, f, v) ==
    IF f \notin properties
    THEN [rec |-> self, ok |-> FALSE, errors |-> {<<f, "no_such_field">>}]
    ELSE IF ~validate_field(f, v).ok
    THEN [rec |-> self, ok |-> FALSE, errors |-> {<<f, validate_field(f, v).err>>}]
    ELSE [rec |-> [vals |-> [self.vals EXCEPT ![f] = validate_field(f, v).val],
                   fields_set |-> self.fields_set \cup {f}],
          ok |-> TRUE,
          errors |-> {}]


----------------------------------------------------------------------------
(* Inputs *)

Kwargs(ci, en, et, ic, rq, ui) ==
    Strip([clicked_items |-> ci, event_name |-> en, event_type |-> et,
           is_conversion |-> ic, request |-> rq, user_id |-> ui])

\* keyword arguments of a direct construction Click(...)
ClickInputs ==
    {Kwargs(ci, en, et, ic, rq, ui) :
        ci \in {Absent, CHUNK}, en \in {Absent, NAME}, et \in {CLICK, VIEW},
        ic \in {Absent, None, FALSE_, FIVE}, rq \in {Absent, None, REQ},
        ui \in {Absent, None, USER}}

\* mappings handed to from_dict
FromDictInputs ==
    {Kwargs(ci, en, et, ic, rq, ui) :
        ci \in {Absent, NestedToDict(CHUNK), FIVE}, en \in {Absent, NAME},
        et \in {Absent, CLICK, VIEW},
        ic \in {Absent, None, FALSE_}, rq \in {Absent, None, NestedToDict(REQ)},
        ui \in {Absent, None, USER}}

\* members of the JSON objects handed to from_json
FromJsonInputs ==
    {json_dumps(Kwargs(ci, en, et, ic, rq, ui)) :
        ci \in {NestedToDict(CHUNK)}, en \in {NAME}, et \in {CLICK, VIEW},
        ic \in {Absent, None, FALSE_}, rq \in {Absent, NestedToDict(REQ)},
        ui \in {Absent, None}}

\* values assigned to a field of an existing record
AssignValues(f) ==
    CASE f = "clicked_items" -> {CHUNK, None}
      [] f = "event_name" -> {NAME, None}
      [] f = "event_type" -> {CLICK, VIEW, None}
      [] f = "is_conversion" -> {None, FALSE_, FIVE}
      [] f = "request" -> {None, REQ}
      [] f = "user_id" -> {None, USER}
      [] OTHER -> {None}

AssignTargets == properties \cup {"unknown"}

----------------------------------------------------------------------------
(* State machine: one record under observation.  rec is the record the     *)
(* last constructing call returned (NoRecord when it raised or returned    *)
(* None) as changed by later assignments; origin remembers how a record    *)
(* that has not been reassigned since was built; op, arg, ret are the last *)
(* call, its argument and its outcome; seen collects what each serializer  *)
(* returned since the record last changed; supplied is the set of nullable *)
(* fields the caller supplied at construction or assigned later;           *)
(* validated tells whether the last call ran Click's field validation.     *)

NoSeen == [to_dict |-> {}, to_json |-> {}, to_str |-> {}]
NoOrigin == [m |-> EmptyMap, how |-> "none"]

Init ==
    /\ rec = NoRecord
    /\ origin = NoOrigin
    /\ op = "init"
    /\ arg = ArgVoid
    /\ ret = [val |-> EmptyMap, kind |-> "init", errors |-> {}]
    /\ seen = NoSeen
    /\ supplied = {}
    /\ validated = FALSE

\* a constructing call name(a) whose outcome is res
Constructed(name, a, res) ==
    /\ rec' = res.rec
    /\ origin' = [m |-> a.m, how |-> name]
    /\ op' = name
    /\ arg' = a
    /\ ret' = [val |-> EmptyMap, kind |-> res.kind, errors |-> res.errors]
    /\ seen' = NoSeen
    /\ supplied' = IF res.kind = "record" THEN DOMAIN a.m \cap Nullable ELSE {}
    /\ validated' = res.validated

Construct ==
    \E kw \in ClickInputs : Constructed("Click", ArgKw(kw), model_validate(kw))

FromDictMapping ==
    \E m \in FromDictInputs : Constructed("from_dict", ArgDict(m), from_dict(ArgDict(m)))

FromDictNone ==
    Constructed("from_dict", ArgNone, from_dict(ArgNone))

FromDictNonDict ==
    Constructed("from_dict", ArgInt, from_dict(ArgInt))

\* from_dict(x) for the Click instance x under observation: x itself comes back
FromDictInstance ==
    /\ rec # NoRecord
    /\ LET res == from_dict(ArgClick(rec))
       IN /\ rec' = res.rec
          /\ ret' = [val |-> EmptyMap, kind |-> res.kind, errors |-> res.errors]
          /\ validated' = res.validated
    /\ op' = "from_dict"
    /\ arg' = ArgClick(rec)
    /\ UNCHANGED <<origin, seen, supplied>>

FromJson ==
    \E text \in {[m |-> EmptyMap, top |-> "null", inst |-> NoRecord],
                 [m |-> EmptyMap, top |-> "malformed", inst |-> NoRecord]}
                \cup {[m |-> j, top |-> "object", inst |-> NoRecord] : j \in FromJsonInputs} :
        Constructed("from_json", text, from_json(text))

SetAttr ==
    /\ rec # NoRecord
    /\ \E f \in AssignTargets : \E v \in AssignValues(f) :
         LET res == validate_assignment(rec, f, v)
         IN /\ rec' = res.rec
            /\ origin' = IF res.ok THEN [m |-> EmptyMap, how |-> "mutated"] ELSE origin
            /\ op' = "setattr"
            /\ arg' = ArgSet(f, v)
            /\ ret' = [val |-> EmptyMap, kind |-> IF res.ok THEN "None" ELSE "raise",
                       errors |-> res.errors]
            /\ seen' = IF res.ok THEN NoSeen ELSE seen
            /\ supplied' = IF res.ok THEN supplied \cup ({f} \cap Nullable) ELSE supplied
            /\ validated' = (f \in properties)

Serialized(name, out) ==
    /\ op' = name
    /\ arg' = ArgVoid
    /\ ret' = [val |-> out, kind |-> name, errors |-> {}]
    /\ seen' = [seen EXCEPT ![name] = @ \cup {out}]
    /\ validated' = FALSE
    /\ UNCHANGED <<origin, supplied>>

ToDictTracksNulls ==
    /\ rec # NoRecord
    /\ Serialized("to_dict", to_dict(rec))
    /\ rec' = [rec EXCEPT !.fields_set = @ \cup {f \in Nullable : rec.vals[f] = None}]

ToDict ==
    /\ rec # NoRecord
    /\ Serialized("to_dict", to_dict(rec))
    /\ UNCHANGED rec

ToJson ==
    /\ rec # NoRecord
    /\ Serialized("to_json", to_json(rec))
    /\ UNCHANGED rec

ToStr ==
    /\ rec # NoRecord
    /\ Serialized("to_str", to_str(rec))
    /\ UNCHANGED rec

Next ==
    \/ Construct
    \/ FromDictMapping
    \/ FromDictNone
    \/ FromDictNonDict
    \/ FromDictInstance
    \/ FromJson
    \/ SetAttr
    \/ ToDict
    \/ ToJson
    \/ ToStr

Spec == Init /\ [][Next]_vars

TypeOK ==
    /\ rec.fields_set \subseteq properties
    /\ DOMAIN rec.vals \in {{}, properties}
    /\ supplied \subseteq Nullable
    /\ validated \in BOOLEAN


----------------------------------------------------------------------------
(* Properties *)

EnumViolation == <<"event_type", "value_error">>
ShapeKinds == {"missing", "string_type", "bool_type", "model_type"}
Serializers == {"to_dict", "to_json", "to_str"}

\* the call under observation is a construction from named field values
FromFields == op \in {"Click", "from_dict"} /\ arg.top \in {"kwargs", "dict"}

ValidNested(cls, v) == IsModel(cls, v) \/ IsDictOf(cls, v)

OtherRequiredValid(m) ==
    /\ "clicked_items" \in DOMAIN m /\ ValidNested("ChunkWithPosition", m["clicked_items"])
    /\ "event_name" \in DOMAIN m /\ IsStr(m["event_name"])

OptionalValid(m) ==
    /\ "is_conversion" \in DOMAIN m => m["is_conversion"] = None \/ IsBool(m["is_conversion"])
    /\ "request" \in DOMAIN m => m["request"] = None \/ ValidNested("RequestInfo", m["request"])
    /\ "user_id" \in DOMAIN m => m["user_id"] = None \/ IsStr(m["user_id"])

WrongEventType(m) ==
    "event_type" \in DOMAIN m /\ IsStr(m["event_type"]) /\ m["event_type"] # CLICK

\* C1: round trip: for every valid record x, from_dict(to_dict(x)) returns a
\* record equal to x in every field value and in which fields are tracked as
\* supplied (unset / explicit null / value).
C1_RoundTrip ==
    rec # NoRecord =>
        /\ from_dict(ArgDict(to_dict(rec))).kind = "record"
        /\ from_dict(ArgDict(to_dict(rec))).rec = rec

\* C2: a directly constructed record serializes each nullable field by its
\* tri-state: omitted -> no key, explicit null -> key mapped to null, value ->
\* key mapped to the value (for request, the nested to_dict result).
C2_TriState ==
    (origin.how = "Click" /\ op = "to_dict") =>
        \A f \in Nullable :
            IF f \notin DOMAIN origin.m THEN f \notin DOMAIN ret.val
            ELSE /\ f \in DOMAIN ret.val
                 /\ ret.val[f] = IF origin.m[f] = None THEN None
                                 ELSE IF f = "request" THEN NestedToDict(origin.m[f])
                                 ELSE origin.m[f]

C2_Witness ==
    /\ origin.how = "Click" /\ op = "to_dict"
    /\ "is_conversion" \notin DOMAIN origin.m
    /\ "user_id" \in DOMAIN origin.m /\ origin.m["user_id"] = None
    /\ "request" \in DOMAIN origin.m /\ origin.m["request"] = REQ

\* C3: the to_dict() output of a record built by from_dict(m) contains a
\* nullable key only if m supplied it; a mapping with exactly clicked_items,
\* event_name, event_type and user_id gives back exactly those four keys.
C3_OnlySuppliedKeys ==
    (origin.how = "from_dict" /\ op = "to_dict") =>
        /\ \A f \in Nullable : f \in DOMAIN ret.val => f \in DOMAIN origin.m
        /\ DOMAIN origin.m = Required \cup {"user_id"} => DOMAIN ret.val = DOMAIN origin.m

\* C4 as stated: a string event_type other than "click" always fails with the
\* enum violation and gives no record; event_type "click" always succeeds
\* when clicked_items and event_name are valid.
C4_Original ==
    FromFields =>
        /\ WrongEventType(arg.m) =>
              ret.kind = "raise" /\ EnumViolation \in ret.errors /\ rec = NoRecord
        /\ ("event_type" \in DOMAIN arg.m /\ arg.m["event_type"] = CLICK
              /\ OtherRequiredValid(arg.m)) => ret.kind = "record"

\* C4 amended: a string event_type other than "click" always fails and gives
\* no record, and the failure carries the enum violation whenever Click's own
\* field validation ran (always for a direct construction; in from_dict unless
\* the nested from_dict of clicked_items or request raised first);
\* event_type "click" succeeds when clicked_items and event_name are valid and
\* every supplied optional field is null or a value of its declared type.
C4_EnumEnforcement ==
    FromFields =>
        /\ WrongEventType(arg.m) =>
              /\ ret.kind = "raise" /\ rec = NoRecord
              /\ validated => EnumViolation \in ret.errors
              /\ op = "Click" => validated
              /\ ~validated => \E e \in ret.errors :
                                  e[1] \in {"ChunkWithPosition", "RequestInfo"}
        /\ ("event_type" \in DOMAIN arg.m /\ arg.m["event_type"] = CLICK
              /\ OtherRequiredValid(arg.m) /\ OptionalValid(arg.m)) =>
              ret.kind = "record" /\ rec.vals["event_type"] = CLICK

C4_Witness ==
    /\ FromFields /\ op = "Click" /\ WrongEventType(arg.m)
    /\ OtherRequiredValid(arg.m) /\ OptionalValid(arg.m)
    /\ ret.kind = "raise" /\ ret.errors = {EnumViolation}

\* C5: from_dict of a mapping that lacks a required field raises a validation
\* error naming a shape problem, returns no record and substitutes no default.
C5_RequiredAbsent ==
    (op = "from_dict" /\ arg.top = "dict" /\ ~(Required \subseteq DOMAIN arg.m)) =>
        /\ ret.kind = "raise" /\ rec = NoRecord
        /\ \E e \in ret.errors : e[2] \in ShapeKinds
        /\ validated => \A f \in Required \ DOMAIN arg.m :
                            \E e \in ret.errors : e[1] = f /\ e[2] \in ShapeKinds

C5_Witness ==
    /\ op = "from_dict" /\ arg.top = "dict" /\ arg.m = EmptyMap
    /\ ret.kind = "raise" /\ validated

\* C6: from_dict(None) returns None, raises nothing and validates no field.
C6_NullSafe ==
    (op = "from_dict" /\ arg.top = "None") =>
        ret.kind = "None" /\ ret.errors = {} /\ ~validated /\ rec = NoRecord

C6_Witness == op = "from_dict" /\ arg.top = "None" /\ ret.kind = "None"

\* C7: every record that exists, however built and whatever assignments
\* succeeded or failed on it, has event_type "click", non-null clicked_items
\* and event_name, and a to_dict() with those three keys and event_type "click".
C7_RecordInvariant ==
    rec # NoRecord =>
        /\ rec.vals["event_type"] = CLICK
        /\ rec.vals["clicked_items"] # None
        /\ rec.vals["event_name"] # None
        /\ Required \subseteq DOMAIN to_dict(rec)
        /\ to_dict(rec)["event_type"] = CLICK
        /\ op = "to_dict" => ret.val = to_dict(rec)

C7_Witness ==
    /\ rec # NoRecord /\ op = "setattr" /\ ret.kind = "raise"
    /\ arg.m = Put(EmptyMap, "event_type", VIEW)

\* C8: a serialization changes neither the field values nor the set of
\* fields tracked as supplied, and every serializer has returned one single
\* result since the record last changed.
C8_SerializationFrame ==
    [][op' \in Serializers =>
         /\ rec' = rec
         /\ supplied' = supplied
         /\ \A k \in Serializers : Cardinality(seen'[k]) <= 1]_vars

C8_Witness ==
    /\ op = "to_dict"
    /\ \A k \in Serializers : seen[k] # {}
    /\ rec.fields_set # properties

\* C9: an assignment that fails validation raises and leaves the field
\* values, the tracked set and so the to_dict() output as they were.
C9_RejectedAssignment ==
    [][(op' = "setattr" /\ ret'.kind = "raise") =>
         /\ ret'.errors # {}
         /\ rec' = rec
         /\ to_dict(rec') = to_dict(rec)]_vars

C9_Witness ==
    /\ rec # NoRecord /\ op = "setattr" /\ ret.kind = "raise"
    /\ arg.m = Put(EmptyMap, "is_conversion", FIVE)
    /\ "is_conversion" \notin rec.fields_set

\* C10: the to_dict() output contains a nullable key exactly when the field
\* holds a non-null value or is null and was supplied by the caller at
\* construction or assigned since; a tracked field never becomes omitted.
C10_TrackedOnlyGrows ==
    (rec # NoRecord /\ op = "to_dict") =>
        \A f \in Nullable :
            f \in DOMAIN ret.val <=> (rec.vals[f] # None \/ f \in supplied)

====
